---- MODULE Spec2Model ----
(***************************************************************************)
(* A model of crisPy2: the CRISP accessor of crisp.py (construction from   *)
(* FITS / HDF5 files, __str__, unit_conversion, intensity_vector) and the  *)
(* slicing mixins of mixin.py.                                             *)
(*                                                                         *)
(* Numbers that the code holds as floats are exact rationals <<n, d>> in   *)
(* lowest terms with d > 0; a physical quantity is a value (a scalar or a  *)
(* (y, x) pair) with a unit, the unit being a vector of exponents over the *)
(* bases pix, arcsec, Mm and deg, so that multiplying and dividing         *)
(* quantities composes their units the way astropy.units does.             *)
(***************************************************************************)
EXTENDS Integers, Sequences, FiniteSets, TLC

VARIABLES pc, obj, call, ret, cubes, item, sliced

vars == <<pc, obj, call, ret, cubes, item, sliced>>

---------------------------------------------------------------------------
(* Bounds of the model.                                                    *)

\* longest list of files handed to CRISP(files)
MaxFiles == 2
\* coordinates range over k / CoordDen for k in -MaxCoord .. MaxCoord
MaxCoord == 2
CoordDen == 2
\* longest array held by a sliceable cube, and longest CRISPSequence
MaxArr == 2
MaxSeq == 2

---------------------------------------------------------------------------
(* Rational arithmetic.                                                    *)

Abs(n) == IF n < 0 THEN -n ELSE n

RECURSIVE GCD(_, _)
GCD(a, b) == IF b = 0 THEN a ELSE GCD(b, a % b)

\* the rational n / d (d # 0) in lowest terms with a positive denominator
Rat(n, d) ==
    LET g == GCD(Abs(n), Abs(d))
        s == IF d < 0 THEN -1 ELSE 1
    IN  <<(s * n) \div g, (s * d) \div g>>

RInt(n) == <<n, 1>>
RAdd(a, b) == Rat(a[1] * b[2] + b[1] * a[2], a[2] * b[2])
RSub(a, b) == Rat(a[1] * b[2] - b[1] * a[2], a[2] * b[2])
RMul(a, b) == Rat(a[1] * b[1], a[2] * b[2])
RDiv(a, b) == Rat(a[1] * b[2], a[2] * b[1])
IsInt(a) == a[2] = 1

\* numpy.round: to the nearest integer, a tie going to the even neighbour
RoundHalfEven(a) ==
    LET fl  == a[1] \div a[2]
        rem == a[1] - fl * a[2]
    IN  IF 2 * rem < a[2] THEN RInt(fl)
        ELSE IF 2 * rem > a[2] THEN RInt(fl + 1)
        ELSE IF fl % 2 = 0 THEN RInt(fl) ELSE RInt(fl + 1)

---------------------------------------------------------------------------
(* Units and quantities (astropy.units).                                   *)

UnitOf(p, a, m, d) == [pix |-> p, arcsec |-> a, Mm |-> m, deg |-> d]
Pix      == UnitOf(1, 0, 0, 0)
Arcsec   == UnitOf(0, 1, 0, 0)
Megameter == UnitOf(0, 0, 1, 0)
Deg      == UnitOf(0, 0, 0, 1)
UMul(u, v) == [k \in DOMAIN u |-> u[k] + v[k]]
UDiv(u, v) == [k \in DOMAIN u |-> u[k] - v[k]]

\* a quantity: val is a sequence of rationals, of length 1 for a scalar
Q(v, u) == [val |-> v, unit |-> u]

\* numpy broadcasting of a scalar against a pair
At(v, i) == IF Len(v) = 1 THEN v[1] ELSE v[i]
BLen(v, w) == IF Len(v) >= Len(w) THEN Len(v) ELSE Len(w)

QMul(a, b) == Q([i \in 1..BLen(a.val, b.val) |-> RMul(At(a.val, i), At(b.val, i))],
                UMul(a.unit, b.unit))
QDiv(a, b) == Q([i \in 1..BLen(a.val, b.val) |-> RDiv(At(a.val, i), At(b.val, i))],
                UDiv(a.unit, b.unit))
\* addition and subtraction are only used between quantities of one unit
QAdd(a, b) == Q([i \in 1..BLen(a.val, b.val) |-> RAdd(At(a.val, i), At(b.val, i))],
                a.unit)
QSub(a, b) == Q([i \in 1..BLen(a.val, b.val) |-> RSub(At(a.val, i), At(b.val, i))],
                a.unit)
QRound(a) == Q([i \in 1..Len(a.val) |-> RoundHalfEven(a.val[i])], a.unit)

\* the string an astropy unit is compared with: coord.unit == "pix" and so on
UnitNamed(s) ==
    CASE s = "pix" -> Pix
      [] s = "arcsec" -> Arcsec
      [] s = "megameter" -> Megameter
      [] s = "Mm" -> Megameter
      [] OTHER -> Deg

---------------------------------------------------------------------------
(* The files CRISP.__init__ reads.                                         *)

\* the solar radius in megametres and in arcseconds
MmSun == 1391
AngSun == 1920

\* what an observation file holds: pixel scale, pointing (cx, cy), image
\* extents W x H, number of wavelengths nw, array rank and a date
Profiles ==
    { [scale |-> Rat(59, 1000), cx |-> RInt(2),  cy |-> RInt(-1), W |-> 4, H |-> 4,
       nw |-> 3, ndim |-> 3, date |-> "d1"],
      [scale |-> Rat(1, 2),     cx |-> RInt(-3), cy |-> RInt(1),  W |-> 7, H |-> 5,
       nw |-> 2, ndim |-> 4, date |-> "d2"] }

\* a file: whether ".fits" and "ca" occur in its name, what it holds, and
\* where its wavelengths are ("header": key spect_pos, "ext1": FITS
\* extension 1, "none": neither)
Files == [fits : BOOLEAN, ca : BOOLEAN, p : Profiles, wvl : {"header", "ext1", "none"}]

\* fits.open(f)[0].header
FitsHeader(f) ==
    [schema |-> "fits", CDELT1 |-> f.p.scale, CRVAL1 |-> f.p.cx, CRVAL2 |-> f.p.cy,
     NAXIS1 |-> f.p.W, NAXIS2 |-> f.p.H, NAXIS3 |-> f.p.nw, date |-> f.p.date]

\* yaml.load(h5["header"][0])
H5Header(f) ==
    [schema |-> "hdf5", pixel_scale |-> f.p.scale, crval |-> <<f.p.cy, f.p.cx>>,
     dimensions |-> IF f.p.ndim = 4 THEN <<4, f.p.nw, f.p.H, f.p.W>>
                    ELSE <<f.p.nw, f.p.H, f.p.W>>,
     date |-> f.p.date]

\* seq[-k] of Python
FromEnd(s, k) == s[Len(s) + 1 - k]

---------------------------------------------------------------------------
(* The accessor: an attribute is unset until __init__ assigns it.          *)

Unset == [set |-> FALSE]
Set(v) == [set |-> TRUE, v |-> v]

EmptyObj ==
    [ca |-> Unset, ha |-> Unset, ca_wvls |-> Unset, ha_wvls |-> Unset,
     px_res |-> Unset, pointing |-> Unset, mid |-> Unset]

\* the outcome of loading: the object so far and the exception, if any
Loaded(o) == [o |-> o, err |-> "none"]
Failed(o, e) == [o |-> o, err |-> e]

\* header["spect_pos"], else fits.open(f)[1].data
FitsWvls(f) ==
    CASE f.wvl = "header" -> [err |-> "none", v |-> [src |-> "spect_pos", n |-> f.p.nw]]
      [] f.wvl = "ext1"   -> [err |-> "none", v |-> [src |-> "ext1", n |-> f.p.nw]]
      [] OTHER            -> [err |-> "IndexError"]

\* header["spect_pos"] of an HDF5 header
H5Wvls(f) ==
    IF f.wvl = "header" THEN [err |-> "none", v |-> [src |-> "spect_pos", n |-> f.p.nw]]
    ELSE [err |-> "KeyError"]

\* the header and the shape of the data array
HDU(hdr, f) ==
    [header |-> hdr,
     shape |-> IF f.p.ndim = 4 THEN <<4, f.p.nw, f.p.H, f.p.W>>
               ELSE <<f.p.nw, f.p.H, f.p.W>>]

PxRes(scale) == Q(<<scale>>, UDiv(Arcsec, Pix))

\* (NAXIS2 // 2, NAXIS1 // 2) << pixel
MidFits(h) == Q(<<RInt(h.NAXIS2 \div 2), RInt(h.NAXIS1 \div 2)>>, Pix)
\* (dimensions[-2] // 2, dimensions[-1] // 2) << pixel
MidH5(h) == Q(<<RInt(FromEnd(h.dimensions, 2) \div 2),
                RInt(FromEnd(h.dimensions, 1) \div 2)>>, Pix)
\* (dimensions[-2] // 2, dimensions[-1]) << pixel
MidH5Ha(h) == Q(<<RInt(FromEnd(h.dimensions, 2) \div 2),
                  RInt(FromEnd(h.dimensions, 1))>>, Pix)

PointingFits(h) == Q(<<h.CRVAL2, h.CRVAL1>>, Arcsec)
PointingH5(h) == Q(<<FromEnd(h.crval, 2), FromEnd(h.crval, 1)>>, Arcsec)

\* the shared metadata set by a branch of __init__
WithMeta(o, res, pt, mid) ==
    [o EXCEPT !.px_res = Set(res), !.pointing = Set(pt), !.mid = Set(mid)]

\* files is a str: the four branches
SingleFitsCa(o, f) ==
    LET o1 == [o EXCEPT !.ca = Set(HDU(FitsHeader(f), f))]
        w  == FitsWvls(f)
    IN  IF w.err # "none" THEN Failed(o1, w.err)
        ELSE Loaded(WithMeta([o1 EXCEPT !.ca_wvls = Set(w.v)],
                             PxRes(FitsHeader(f).CDELT1),
                             PointingFits(FitsHeader(f)), MidFits(FitsHeader(f))))

SingleFitsHa(o, f) ==
    LET o1 == [o EXCEPT !.ha = Set(HDU(FitsHeader(f), f))]
        w  == FitsWvls(f)
    IN  IF w.err # "none" THEN Failed(o1, w.err)
        ELSE Loaded(WithMeta([o1 EXCEPT !.ha_wvls = Set(w.v)],
                             PxRes(FitsHeader(f).CDELT1),
                             PointingFits(FitsHeader(f)), MidFits(FitsHeader(f))))

SingleH5Ca(o, f) ==
    LET o1 == [o EXCEPT !.ca = Set(HDU(H5Header(f), f))]
        w  == H5Wvls(f)
    IN  IF w.err # "none" THEN Failed(o1, w.err)
        ELSE Loaded(WithMeta([o1 EXCEPT !.ca_wvls = Set(w.v)],
                             PxRes(H5Header(f).pixel_scale),
                             PointingH5(H5Header(f)), MidH5(H5Header(f))))

SingleH5Ha(o, f) ==
    LET o1 == [o EXCEPT !.ha = Set(HDU(H5Header(f), f))]
        w  == H5Wvls(f)
    IN  IF w.err # "none" THEN Failed(o1, w.err)
        ELSE Loaded(WithMeta([o1 EXCEPT !.ha_wvls = Set(w.v)],
                             PxRes(H5Header(f).pixel_scale),
                             PointingH5(H5Header(f)), MidH5Ha(H5Header(f))))

\* files is a list: the four branches of the loop body
ListFitsCa(o, f) == SingleFitsCa(o, f)

ListFitsHa(o, f) ==
    LET o1 == [o EXCEPT !.ha = Set(HDU(FitsHeader(f), f))]
        w  == FitsWvls(f)
    IN  IF w.err # "none" THEN Failed(o1, w.err)
        ELSE Loaded([o1 EXCEPT !.ha_wvls = Set(w.v)])

ListH5Ca(o, f) == SingleH5Ca(o, f)

ListH5Ha(o, f) ==
    LET o1 == [o EXCEPT !.ha = Set(HDU(H5Header(f), f))]
        w  == H5Wvls(f)
    IN  IF w.err # "none" THEN Failed(o1, w.err)
        ELSE Loaded([o1 EXCEPT !.ha_wvls = Set(w.v)])

\* ".fits" in f, then "ca" in f; the elif '".h5" or ".hdf5" in f' is
\* always true, so every other name is read as HDF5
LoadSingle(o, f) ==
    IF f.fits THEN (IF f.ca THEN SingleFitsCa(o, f) ELSE SingleFitsHa(o, f))
    ELSE (IF f.ca THEN SingleH5Ca(o, f) ELSE SingleH5Ha(o, f))

LoadListed(o, f) ==
    IF f.fits THEN (IF f.ca THEN ListFitsCa(o, f) ELSE ListFitsHa(o, f))
    ELSE (IF f.ca THEN ListH5Ca(o, f) ELSE ListH5Ha(o, f))

\* for f in files: ... ; an exception ends the loop
RECURSIVE LoadList(_, _, _)
LoadList(o, fs, i) ==
    IF i > Len(fs) THEN Loaded(o)
    ELSE LET r == LoadListed(o, fs[i])
         IN  IF r.err # "none" THEN r ELSE LoadList(r.o, fs, i + 1)

FileLists == UNION { [1..n -> Files] : n \in 0..MaxFiles }

---------------------------------------------------------------------------
(* CRISP.unit_conversion.                                                  *)

\* what a call ends in: a returned quantity, a returned None, an exception
Val(q) == [kind |-> "value", q |-> q]
None == [kind |-> "None"]
Raise(e) == [kind |-> e]

mm_sun == Q(<<RInt(MmSun)>>, Megameter)
ang_sun == Q(<<RInt(AngSun)>>, Arcsec)

HasUnit(coord, s) == coord.unit = UnitNamed(s)

\* variant: the branch with its return statement missing
NoReturn(coord) == None
\* return coord
SameCoord(coord) == Val(coord)

\* variant: the resolution multiplied instead of divided
ArcsecTimesRes(o, coord) ==
    IF ~o.px_res.set THEN Raise("AttributeError")
    ELSE Val(QRound(QMul(coord, o.px_res.v)))
\* np.round(coord / self.px_res)
ArcsecToPix(o, coord) ==
    IF ~o.px_res.set THEN Raise("AttributeError")
    ELSE Val(QRound(QDiv(coord, o.px_res.v)))

\* np.round((coord * self.ang_sun / self.mm_sun) / self.px_res)
MmToPix(o, coord) ==
    IF ~o.px_res.set THEN Raise("AttributeError")
    ELSE Val(QRound(QDiv(QDiv(QMul(coord, ang_sun), mm_sun), o.px_res.v)))

\* coord * self.px_res
PixToArcsec(o, coord) ==
    IF ~o.px_res.set THEN Raise("AttributeError")
    ELSE Val(QMul(coord, o.px_res.v))

\* coord * (self.ang_sun / self.mm_sun)
MmToArcsec(o, coord) == Val(QMul(coord, QDiv(ang_sun, mm_sun)))

\* (coord * self.px_res) * self.mm_sun / self.ang_sun
PixToMm(o, coord) ==
    IF ~o.px_res.set THEN Raise("AttributeError")
    ELSE Val(QDiv(QMul(QMul(coord, o.px_res.v), mm_sun), ang_sun))

\* coord * self.mm_sun / self.ang_sun
ArcsecToMm(o, coord) == Val(QDiv(QMul(coord, mm_sun), ang_sun))

\* the branch "if not centre"
ConvertNoCentre(o, coord, unit_to) ==
    CASE unit_to = "pix" ->
            (CASE HasUnit(coord, "pix") -> SameCoord(coord)
               [] HasUnit(coord, "arcsec") -> ArcsecToPix(o, coord)
               [] HasUnit(coord, "megameter") -> MmToPix(o, coord)
               [] OTHER -> None)
      [] unit_to = "arcsec" ->
            (CASE HasUnit(coord, "pix") -> PixToArcsec(o, coord)
               [] HasUnit(coord, "arcsec") -> SameCoord(coord)
               [] HasUnit(coord, "megameter") -> MmToArcsec(o, coord)
               [] OTHER -> None)
      [] unit_to = "Mm" ->
            (CASE HasUnit(coord, "pix") -> PixToMm(o, coord)
               [] HasUnit(coord, "arcsec") -> ArcsecToMm(o, coord)
               [] HasUnit(coord, "megameter") -> SameCoord(coord)
               [] OTHER -> None)
      [] OTHER -> None

\* px_diff = np.round((coord - self.pointing) / self.px_res)
\* return self.mid + px_diff
ArcsecToPixCentred(o, coord) ==
    IF ~o.pointing.set \/ ~o.px_res.set \/ ~o.mid.set THEN Raise("AttributeError")
    ELSE Val(QAdd(o.mid.v, QRound(QDiv(QSub(coord, o.pointing.v), o.px_res.v))))

\* variant: the centre pixel not subtracted
PixToArcsecNoMid(o, coord) ==
    IF ~o.mid.set \/ ~o.px_res.set \/ ~o.pointing.set THEN Raise("AttributeError")
    ELSE Val(QAdd(QMul(coord, o.px_res.v), o.pointing.v))
\* ((coord - self.mid) * self.px_res) + self.pointing
PixToArcsecCentred(o, coord) ==
    IF ~o.mid.set \/ ~o.px_res.set \/ ~o.pointing.set THEN Raise("AttributeError")
    ELSE Val(QAdd(QMul(QSub(coord, o.mid.v), o.px_res.v), o.pointing.v))

\* (coord - (self.mid * self.px_res) + self.pointing)
ArcsecToArcsecCentred(o, coord) ==
    IF ~o.mid.set \/ ~o.px_res.set \/ ~o.pointing.set THEN Raise("AttributeError")
    ELSE Val(QAdd(QSub(coord, QMul(o.mid.v, o.px_res.v)), o.pointing.v))

\* self.unit_conversion(self.unit_conversion(coord, unit_to="pix", centre=False),
\*                      unit_to="arcsec", centre=True)
MmToArcsecCentred(o, coord) ==
    LET inner == ConvertNoCentre(o, coord, "pix")
    IN  IF inner.kind = "value" THEN PixToArcsecCentred(o, inner.q)
        ELSE IF inner.kind = "None" THEN Raise("AttributeError")
        ELSE inner

\* self.unit_conversion(coords, unit_to="pix", centre=False): coords is no name
PixToMmCentred(o, coord) == Raise("NameError")

\* self.unit_conversion(self.unit_conversion(coord, unit_to="pix", centre=True),
\*                      unit_to="megameter", centre=False)
ArcsecToMmCentred(o, coord) ==
    LET inner == ArcsecToPixCentred(o, coord)
    IN  IF inner.kind = "value" THEN ConvertNoCentre(o, inner.q, "megameter")
        ELSE inner

\* the branch "else" (centre is true)
ConvertCentred(o, coord, unit_to) ==
    CASE unit_to = "pix" ->
            (CASE HasUnit(coord, "pix") -> SameCoord(coord)
               [] HasUnit(coord, "arcsec") -> ArcsecToPixCentred(o, coord)
               [] HasUnit(coord, "megameter") -> ConvertNoCentre(o, coord, "pix")
               [] OTHER -> None)
      [] unit_to = "arcsec" ->
            (CASE HasUnit(coord, "pix") -> PixToArcsecCentred(o, coord)
               [] HasUnit(coord, "arcsec") -> ArcsecToArcsecCentred(o, coord)
               [] HasUnit(coord, "megameter") -> MmToArcsecCentred(o, coord)
               [] OTHER -> None)
      [] unit_to = "megameter" ->
            (CASE HasUnit(coord, "pix") -> PixToMmCentred(o, coord)
               [] HasUnit(coord, "arcsec") -> ArcsecToMmCentred(o, coord)
               [] HasUnit(coord, "megameter") -> SameCoord(coord)
               [] OTHER -> None)
      [] OTHER -> None

unit_conversion(o, coord, unit_to, centre) ==
    IF ~centre THEN ConvertNoCentre(o, coord, unit_to)
    ELSE ConvertCentred(o, coord, unit_to)

\* the inputs of the calls
CoordVals == { Rat(k, CoordDen) : k \in -MaxCoord..MaxCoord }
CoordUnits == {Pix, Arcsec, Megameter, Deg}
Coords == { Q(v, u) : v \in { <<a>> : a \in CoordVals } \cup (CoordVals \X CoordVals),
                      u \in CoordUnits }
UnitTos == {"pix", "arcsec", "Mm", "megameter"}
\* a caller may also pass the accessor's own centre pixel
CallCoords(o) == Coords \cup (IF o.mid.set THEN {o.mid.v} ELSE {})

---------------------------------------------------------------------------
(* CRISP.intensity_vector.                                                 *)

\* str.lower on the line names in use
Lower(s) == IF s = "CA" THEN "ca" ELSE s

Lines == {"ca", "ha", "CA"}

\* the end of a call with the steps it took before ending
Ended(r, steps) == [r EXCEPT !.trace = steps]
Out(kind) == [kind |-> kind, trace |-> <<>>, axes |-> <<>>, at |-> <<>>]

InBounds(v, n) == IsInt(v) /\ -n <= v[1] /\ v[1] < n

\* data[axes, *coord] (axes the leading indices as written): unpacking None or a scalar quantity is a TypeError; the
\* array then takes the pair as its last two indices or rejects it (accepts
\* says whether the array library takes pixel quantities as indices at all)
Index(hdu, c, axes, accepts, steps) ==
    IF c.kind = "None" \/ Len(c.q.val) = 1 THEN Ended(Out("TypeError"), steps)
    ELSE IF ~accepts
            \/ ~InBounds(c.q.val[1], FromEnd(hdu.shape, 2))
            \/ ~InBounds(c.q.val[2], FromEnd(hdu.shape, 1))
         THEN Ended(Out("IndexError"), Append(steps, "getitem"))
         ELSE Ended([Out("data") EXCEPT !.axes = axes, !.at = c.q.val],
                    Append(steps, "getitem"))

\* variant: the test made on the other line
CaAndPol(line, pol) == line = "ca" /\ pol
\* if line == "ha" and pol
HaAndPol(line, pol) == line = "ha" /\ pol

\* variant: the rank test taken as a lower bound
AtLeast3D(hdu) == Len(hdu.shape) >= 3
\* len(self.ca.data.shape) == 4
Is4D(hdu) == Len(hdu.shape) = 4

intensity_vector(o, coord, line, pol, centre, accepts) ==
    IF HaAndPol(line, pol) THEN Ended(Out("WiseGuyError"), <<>>)
    ELSE
      LET c  == unit_conversion(o, coord, "pix", centre)
          st == <<"unit_conversion">>
      IN  IF c.kind \notin {"value", "None"} THEN Ended(Out(c.kind), st)
          ELSE IF Lower(line) = "ca" THEN
                 IF ~o.ca.set THEN Ended(Out("AttributeError"), st)
                 ELSE IF ~pol THEN
                        IF Is4D(o.ca.v)
                        THEN Index(o.ca.v, c, <<"0", ":">>, accepts, st)
                        ELSE Index(o.ca.v, c, <<":">>, accepts, st)
                      ELSE
                        IF Is4D(o.ca.v)
                        THEN Index(o.ca.v, c, <<":", ":">>, accepts, st)
                        ELSE Ended(Out("WiseGuyError"), st)
               ELSE IF Lower(line) = "ha" THEN
                 IF ~o.ha.set THEN Ended(Out("AttributeError"), st)
                 ELSE Index(o.ha.v, c, <<":">>, accepts, st)
               ELSE Ended(Out("None"), st)

---------------------------------------------------------------------------
(* CRISP.__str__.                                                          *)

\* the three conditions as Python evaluates them: "ca" is a true value, so
\* '"ca" and X' is X and 'not "ca" and X' is False
CondBoth(o) == o.ha.set
CondCaOnly(o) == ~o.ha.set
CondHaOnly(o) == FALSE /\ o.ha.set

\* what __str__ ends in: the branch taken, the lines whose attribute it read,
\* and the text (which header the date is from, the samples, the Stokes note)
Described(kind, branch, reads, text) ==
    [kind |-> kind, branch |-> branch, reads |-> reads, text |-> text]

Samples(h) == IF h.schema = "fits" THEN h.NAXIS3 ELSE FromEnd(h.dimensions, 3)

Stokes(hdu) ==
    IF Len(hdu.shape) = 3 THEN "Only Stokes I"
    ELSE IF Len(hdu.shape) = 4 THEN "All Stokes" ELSE "no return"

StrBoth(o) ==
    IF ~o.ca.set THEN Described("AttributeError", "both", {"ca"}, <<>>)
    ELSE IF o.ca.v.header.schema # o.ha.v.header.schema
         THEN Described("KeyError", "both", {"ca", "ha"}, <<>>)
         ELSE Described("str", "both", {"ca", "ha"},
                        <<o.ca.v.header.date, Samples(o.ca.v.header),
                          Samples(o.ha.v.header), Stokes(o.ca.v)>>)

StrCaOnly(o) ==
    IF ~o.ca.set THEN Described("AttributeError", "ca", {"ca"}, <<>>)
    ELSE Described("str", "ca", {"ca"},
                   <<o.ca.v.header.date, Samples(o.ca.v.header), Stokes(o.ca.v)>>)

StrHaOnly(o) ==
    IF ~o.ha.set THEN Described("AttributeError", "ha", {"ha"}, <<>>)
    ELSE Described("str", "ha", {"ha"},
                   <<o.ha.v.header.date, Samples(o.ha.v.header), Stokes(o.ha.v)>>)

Str(o) ==
    IF CondBoth(o) THEN StrBoth(o)
    ELSE IF CondCaOnly(o) THEN StrCaOnly(o)
    ELSE IF CondHaOnly(o) THEN StrHaOnly(o)
    ELSE Described("None", "none", {}, <<>>)

---------------------------------------------------------------------------
(* The slicing mixins (mixin.py) over one-dimensional arrays.              *)

Arr(v) == [kind |-> "array", v |-> v]

\* an index expression: an integer index or slice(start, stop)
IntItem(i) == [slice |-> FALSE, i |-> i, j |-> 0]
SliceItem(i, j) == [slice |-> TRUE, i |-> i, j |-> j]

\* Python's clamping of a slice bound to 0..n
Clamp(k, n) ==
    LET m == IF k < 0 THEN k + n ELSE k
    IN  IF m < 0 THEN 0 ELSE IF m > n THEN n ELSE m

\* arr[item]; "IndexError" for an integer index out of range
GetItem(arr, it) ==
    LET n == Len(arr.v)
    IN  IF it.slice
        THEN Arr(SubSeq(arr.v, Clamp(it.i, n) + 1, Clamp(it.j, n)))
        ELSE IF it.i < -n \/ it.i >= n THEN [kind |-> "IndexError"]
             ELSE [kind |-> "scalar", v |-> arr.v[(IF it.i < 0 THEN it.i + n ELSE it.i) + 1]]

\* NDSlicingMixin._slice_uncertainty, _slice_mask, _slice_wcs: None stays None
SliceOptional(a, it) == IF a.kind = "None" THEN a ELSE GetItem(a, it)

\* variant: the mask passed on unsliced
SliceKwargsMaskWhole(c, it) ==
    [filename |-> [data |-> GetItem(c.file.data, it), header |-> c.file.header],
     uncertainty |-> SliceOptional(c.uncertainty, it),
     mask |-> c.mask,
     wcs |-> SliceOptional(c.wcs, it),
     nonu |-> c.nonu]
\* CRISPSlicingMixin._slice: the keyword arguments of the new accessor
SliceKwargs(c, it) ==
    [filename |-> [data |-> GetItem(c.file.data, it), header |-> c.file.header],
     uncertainty |-> SliceOptional(c.uncertainty, it),
     mask |-> SliceOptional(c.mask, it),
     wcs |-> SliceOptional(c.wcs, it),
     nonu |-> c.nonu]

\* the accessor after _slice(item) has run on it: it assigns nothing to self
SelfAfterSlice(c, it) == c

\* an IndexError of any of the four slicings ends _slice
SliceRaises(c, it) ==
    \/ GetItem(c.file.data, it).kind = "IndexError"
    \/ SliceOptional(c.uncertainty, it).kind = "IndexError"
    \/ SliceOptional(c.mask, it).kind = "IndexError"
    \/ SliceOptional(c.wcs, it).kind = "IndexError"

\* CRISPSequenceSlicingMixin._slice: [f._slice(item) for f in self.list]
SeqSliceArgs(list, it) == [k \in 1..Len(list) |-> SliceKwargs(list[k], it)]

\* the sliceable objects: arrays of one length n, the three annotations each
\* present or None
Cube(n, hasU, hasM, hasW, hd) ==
    [file |-> [data |-> Arr([k \in 1..n |-> 10 * n + k]), header |-> hd],
     uncertainty |-> IF hasU THEN Arr([k \in 1..n |-> 20 * n + k]) ELSE None,
     mask |-> IF hasM THEN Arr([k \in 1..n |-> k % 2 = 0]) ELSE None,
     wcs |-> IF hasW THEN Arr([k \in 1..n |-> 30 * n + k]) ELSE None,
     nonu |-> FALSE]

Cubes == { Cube(n, a[1], a[2], a[3], "hdr") :
             n \in 1..MaxArr,
             a \in {<<TRUE, TRUE, TRUE>>, <<FALSE, FALSE, FALSE>>,
                    <<FALSE, TRUE, FALSE>>, <<TRUE, FALSE, TRUE>>} }
CubeLists == UNION { [1..n -> Cubes] : n \in 1..MaxSeq }
Items == { IntItem(i) : i \in -(MaxArr + 1)..MaxArr }
            \cup { SliceItem(i, j) : i \in -1..MaxArr, j \in -1..(MaxArr + 1) }

---------------------------------------------------------------------------
(* The state machine.                                                      *)

NoCall == [op |-> "none"]
NoRet == [kind |-> "none"]
NoItem == IntItem(0)

\* a fresh interpreter: no accessor yet
Init ==
    /\ pc = "new"
    /\ obj = EmptyObj
    /\ call = NoCall
    /\ ret = NoRet
    /\ cubes = <<>>
    /\ item = NoItem
    /\ sliced = NoRet

\* CRISP(files) with files a str
Construct(f) ==
    /\ pc = "new"
    /\ LET r == LoadSingle(EmptyObj, f)
       IN  /\ obj' = r.o
           /\ pc' = IF r.err = "none" THEN "constructed" ELSE "failed"
           /\ ret' = [kind |-> r.err]
    /\ call' = [op |-> "__init__", single |-> TRUE, files |-> <<f>>]
    /\ UNCHANGED <<cubes, item, sliced>>

\* CRISP(files) with files a list
ConstructList(fs) ==
    /\ pc = "new"
    /\ LET r == LoadList(EmptyObj, fs, 1)
       IN  /\ obj' = r.o
           /\ pc' = IF r.err = "none" THEN "constructed" ELSE "failed"
           /\ ret' = [kind |-> r.err]
    /\ call' = [op |-> "__init__", single |-> FALSE, files |-> fs]
    /\ UNCHANGED <<cubes, item, sliced>>

\* the caller has taken the accessor, or the result of the last call
Return ==
    /\ pc \in {"constructed", "called"}
    /\ pc' = "ready"
    /\ call' = NoCall
    /\ ret' = NoRet
    /\ UNCHANGED <<obj, cubes, item, sliced>>

UnitConversion(coord, unit_to, centre) ==
    /\ pc = "ready"
    /\ pc' = "called"
    /\ call' = [op |-> "unit_conversion", coord |-> coord, unit_to |-> unit_to,
                centre |-> centre]
    /\ ret' = unit_conversion(obj, coord, unit_to, centre)
    /\ UNCHANGED <<obj, cubes, item, sliced>>

IntensityVector(coord, line, pol, centre, accepts) ==
    /\ pc = "ready"
    /\ pc' = "called"
    /\ call' = [op |-> "intensity_vector", coord |-> coord, line |-> line,
                pol |-> pol, centre |-> centre]
    /\ ret' = intensity_vector(obj, coord, line, pol, centre, accepts)
    /\ UNCHANGED <<obj, cubes, item, sliced>>

Describe ==
    /\ pc = "ready"
    /\ pc' = "called"
    /\ call' = [op |-> "__str__"]
    /\ ret' = Str(obj)
    /\ UNCHANGED <<obj, cubes, item, sliced>>

Next ==
    \/ pc = "new" /\ \E f \in Files : Construct(f)
    \/ pc = "new" /\ \E fs \in FileLists : ConstructList(fs)
    \/ pc = "ready" /\ \E coord \in CallCoords(obj), unit_to \in UnitTos, centre \in BOOLEAN :
          UnitConversion(coord, unit_to, centre)
    \/ pc = "ready" /\ \E coord \in Coords, line \in Lines, pol \in BOOLEAN,
          centre \in BOOLEAN, accepts \in BOOLEAN :
          IntensityVector(coord, line, pol, centre, accepts)
    \/ Describe
    \/ Return

Spec == Init /\ [][Next]_vars

---------------------------------------------------------------------------
(* The slicing mixins as a state machine of their own: a CRISPSequence of  *)
(* sliceable accessors, sliced one at a time or all together.              *)

InitSlicing ==
    /\ pc = "ready"
    /\ obj = EmptyObj
    /\ call = NoCall
    /\ ret = NoRet
    /\ cubes \in CubeLists
    /\ item = NoItem
    /\ sliced = NoRet

\* CRISPSlicingMixin.__getitem__ on the k-th accessor
GetItemOne(k, it) ==
    /\ pc = "ready"
    /\ k \in 1..Len(cubes)
    /\ pc' = "called"
    /\ call' = [op |-> "__getitem__", k |-> k]
    /\ item' = it
    /\ sliced' = IF SliceRaises(cubes[k], it) THEN [kind |-> "IndexError"]
                 ELSE [kind |-> "kwargs", args |-> <<SliceKwargs(cubes[k], it)>>]
    /\ cubes' = [cubes EXCEPT ![k] = SelfAfterSlice(cubes[k], it)]
    /\ UNCHANGED <<obj, ret>>

\* CRISPSequenceSlicingMixin.__getitem__
GetItemSeq(it) ==
    /\ pc = "ready"
    /\ pc' = "called"
    /\ call' = [op |-> "__getitem__", k |-> 0]
    /\ item' = it
    /\ sliced' = IF \E k \in 1..Len(cubes) : SliceRaises(cubes[k], it)
                 THEN [kind |-> "IndexError"]
                 ELSE [kind |-> "kwargs", args |-> SeqSliceArgs(cubes, it)]
    /\ cubes' = [k \in 1..Len(cubes) |-> SelfAfterSlice(cubes[k], it)]
    /\ UNCHANGED <<obj, ret>>

\* the caller has taken the sliced accessor
ReturnSliced ==
    /\ pc = "called"
    /\ pc' = "ready"
    /\ call' = NoCall
    /\ item' = NoItem
    /\ sliced' = NoRet
    /\ UNCHANGED <<obj, ret, cubes>>

NextSlicing ==
    \/ pc = "ready" /\ \E k \in 1..MaxSeq, it \in Items : GetItemOne(k, it)
    \/ pc = "ready" /\ \E it \in Items : GetItemSeq(it)
    \/ ReturnSliced

SpecSlicing == InitSlicing /\ [][NextSlicing]_vars

---------------------------------------------------------------------------
(* The claims.                                                             *)

IsConversion == call.op = "unit_conversion"
IsPair(q) == Len(q.val) = 2

\* C1: with centre = False, converting a coordinate to the unit it already
\* has (pixel to "pix", arcsecond to "arcsec", megametre to "Mm") returns
\* the coordinate itself.
C1_SameUnitIsIdentity ==
    \A s \in {"pix", "arcsec", "Mm"} :
        (IsConversion /\ ~call.centre /\ call.unit_to = s
            /\ call.coord.unit = UnitNamed(s))
        => (ret.kind = "value" /\ ret.q = call.coord)

C1_Witness ==
    /\ IsConversion /\ ~call.centre /\ call.unit_to = "Mm"
    /\ call.coord.unit = Megameter /\ IsPair(call.coord)
    /\ call.coord.val = <<RInt(1), RInt(-1)>>
    /\ ret.kind = "value" /\ ret.q = call.coord

\* C2: with centre = True, the accessor's center_pixel converted to
\* arcseconds is exactly its pointing, (y, x) component by component.
C2_CentrePixelIsPointing ==
    (IsConversion /\ call.centre /\ call.unit_to = "arcsec"
        /\ obj.mid.set /\ call.coord = obj.mid.v)
    => (/\ ret.kind = "value"
        /\ ret.q.unit = Arcsec
        /\ ret.q.val[1] = obj.pointing.v.val[1]
        /\ ret.q.val[2] = obj.pointing.v.val[2])

C2_Witness ==
    /\ IsConversion /\ call.centre /\ call.unit_to = "arcsec"
    /\ obj.mid.set /\ call.coord = obj.mid.v
    /\ obj.mid.v.val = <<RInt(2), RInt(3)>>
    /\ ret.kind = "value" /\ ret.q = obj.pointing.v
    /\ ret.q.val[1] # ret.q.val[2]

\* C3: with centre = False, an integer pixel coordinate converted to
\* arcseconds and the result converted back to pixels is the coordinate.
C3_PixelRoundTrip ==
    (IsConversion /\ ~call.centre /\ call.unit_to = "arcsec"
        /\ call.coord.unit = Pix /\ obj.px_res.set
        /\ \A i \in 1..Len(call.coord.val) : IsInt(call.coord.val[i]))
    => (/\ ret.kind = "value"
        /\ ret.q.unit = Arcsec
        /\ unit_conversion(obj, ret.q, "pix", FALSE) = Val(call.coord))

C3_Witness ==
    /\ IsConversion /\ ~call.centre /\ call.unit_to = "arcsec"
    /\ call.coord = Q(<<RInt(1), RInt(-1)>>, Pix)
    /\ obj.px_res.set /\ obj.px_res.v.val[1] = Rat(59, 1000)
    /\ ret.kind = "value" /\ ret.q.val = <<Rat(59, 1000), Rat(-59, 1000)>>
    /\ unit_conversion(obj, ret.q, "pix", FALSE) = Val(call.coord)

IsExtraction == call.op = "intensity_vector"

\* C4: intensity_vector with line "ha" and pol = True ends in WiseGuyError
\* before any unit conversion or array access, whatever the accessor, the
\* coordinate, its unit and centre.
C4_HaPolRaisesFirst ==
    (IsExtraction /\ call.line = "ha" /\ call.pol)
    => (ret.kind = "WiseGuyError" /\ ret.trace = <<>>)

C4_Witness ==
    /\ IsExtraction /\ call.line = "ha" /\ call.pol /\ call.centre
    /\ call.coord.unit = Arcsec /\ IsPair(call.coord)
    /\ obj.ha.set /\ ~obj.px_res.set
    /\ ret.kind = "WiseGuyError"

\* C5: intensity_vector with line "ca" and pol = True on a 3-dimensional
\* calcium array ends in WiseGuyError, for every coordinate and centre.
C5_CaPol3DRaises ==
    (IsExtraction /\ call.line = "ca" /\ call.pol
        /\ obj.ca.set /\ Len(obj.ca.v.shape) = 3)
    => ret.kind = "WiseGuyError"

C5_Witness ==
    /\ IsExtraction /\ call.line = "ca" /\ call.pol /\ call.centre
    /\ call.coord.unit = Arcsec /\ IsPair(call.coord)
    /\ obj.ca.set /\ Len(obj.ca.v.shape) = 3
    /\ ret.kind = "WiseGuyError" /\ ret.trace = <<"unit_conversion">>

LoadedLines == {l \in {"ca", "ha"} : obj[l].set}

\* C6: __str__ takes the branch of the lines loaded (calcium only, H-alpha
\* only with the text from the H-alpha header, or both) and reads no
\* attribute of a line that is not loaded.
C6_DescriptionMatchesLines ==
    (call.op = "__str__" /\ LoadedLines # {})
    => (/\ ret.kind = "str"
        /\ ret.branch = (IF LoadedLines = {"ca"} THEN "ca"
                         ELSE IF LoadedLines = {"ha"} THEN "ha" ELSE "both")
        /\ LoadedLines = {"ha"} => ret.text[1] = obj.ha.v.header.date
        /\ ret.reads \subseteq LoadedLines)

\* C7: after CRISP(file) with one file, center_pixel is
\* (floor(H / 2), floor(W / 2)) of the file's image extents.
C7_SingleFileCentre ==
    (pc = "constructed" /\ call.single)
    => (/\ obj.mid.set
        /\ obj.mid.v = Q(<<RInt(call.files[1].p.H \div 2),
                           RInt(call.files[1].p.W \div 2)>>, Pix))

ListedLines == {l \in {"ca", "ha"} :
                  \E i \in 1..Len(call.files) : call.files[i].ca = (l = "ca")}

\* C8: after CRISP(list) with a non-empty list, data, header and
\* wavelengths of every line in the list are set, and so are
\* pixel_resolution, pointing and center_pixel.
C8_ListPopulatesAll ==
    (pc = "constructed" /\ ~call.single /\ Len(call.files) > 0)
    => (/\ ("ca" \in ListedLines) => (obj.ca.set /\ obj.ca_wvls.set)
        /\ ("ha" \in ListedLines) => (obj.ha.set /\ obj.ha_wvls.set)
        /\ obj.px_res.set /\ obj.pointing.set /\ obj.mid.set)

\* p = center_pixel + round((c - pointing) / pixel_resolution), then
\* p * pixel_resolution * (1391 / 1920), in megametres
TwoStepMm(o, c) ==
    LET p == [i \in 1..2 |->
                RAdd(o.mid.v.val[i],
                     RoundHalfEven(RDiv(RSub(c.val[i], o.pointing.v.val[i]),
                                        o.px_res.v.val[1])))]
    IN  Q([i \in 1..2 |-> RMul(RMul(p[i], o.px_res.v.val[1]), Rat(1391, 1920))],
          Megameter)

\* C9: with centre = True, an arcsecond (y, x) coordinate converted to
\* megametres is the two-step result, a megametre quantity and never None.
C9_ArcsecToMmCentred ==
    (IsConversion /\ call.centre /\ call.unit_to = "megameter"
        /\ call.coord.unit = Arcsec /\ IsPair(call.coord) /\ obj.px_res.set)
    => (ret.kind = "value" /\ ret.q = TwoStepMm(obj, call.coord))

\* the keyword arguments kw are those of c sliced by it
SameArr(a, b) == a.kind = b.kind /\ (a.kind \in {"array", "scalar"} => a.v = b.v)

SlicedBy(kw, c, it) ==
    /\ SameArr(kw.filename.data, GetItem(c.file.data, it))
    /\ kw.filename.header = c.file.header
    /\ SameArr(kw.uncertainty, IF c.uncertainty.kind = "None" THEN None
                               ELSE GetItem(c.uncertainty, it))
    /\ SameArr(kw.mask, IF c.mask.kind = "None" THEN None ELSE GetItem(c.mask, it))
    /\ SameArr(kw.wcs, IF c.wcs.kind = "None" THEN None ELSE GetItem(c.wcs, it))

SlicedRight ==
    sliced.kind = "kwargs"
    => IF call.k = 0
       THEN /\ Len(sliced.args) = Len(cubes)
            /\ \A k \in 1..Len(cubes) : SlicedBy(sliced.args[k], cubes[k], item)
       ELSE SlicedBy(sliced.args[1], cubes[call.k], item)

\* C10: slicing builds, for the accessor (or for every accessor of the
\* sequence, in order), arguments whose data, uncertainty, mask and wcs are
\* sliced by the one index expression and whose header is the original's,
\* and leaves the original accessors as they were.
C10_SliceBuildsAndKeeps ==
    [][(pc = "ready" /\ pc' = "called") => (cubes' = cubes /\ SlicedRight')]_vars

C10_Witness ==
    /\ call.op = "__getitem__" /\ call.k = 0
    /\ Len(cubes) = 2
    /\ item = SliceItem(1, 2)
    /\ cubes[1].mask.kind = "array" /\ Len(cubes[1].mask.v) = 2
    /\ cubes[2].uncertainty.kind = "array" /\ cubes[2].mask.kind = "None"
    /\ sliced.kind = "kwargs"
    /\ sliced.args[1].mask = Arr(<<TRUE>>)
    /\ sliced.args[2].mask.kind = "None"
    /\ sliced.args[2].filename.header = cubes[2].file.header

====
